---- MODULE Spec2Model ----
(***************************************************************************)
(* Model of the CHANAKYA correlation engine                                *)
(*   src/framework/__init__.py                 data model, scoring         *)
(*   src/framework/correlation-engine/engine.py CorrelationEngine          *)
(*                                                                         *)
(* Modelling conventions                                                   *)
(*  - A Signal is a record [signal_id, layer, timestamp,                   *)
(*    correlation_potential]; description, value, detectability and        *)
(*    metadata are never read by the engine and are left out.              *)
(*  - signal_id is a name whose characters are given by IdChars, so that   *)
(*    the substring tests and lower() are computed on characters.          *)
(*  - timestamp is signal.timestamp.timestamp() in whole epoch seconds.    *)
(*  - A score is an exact fraction <<num, den>> in lowest terms.           *)
(*  - An explanation or issue text is the sequence of its parts, the       *)
(*    formatted numbers among them.                                        *)
(*  - A raised exception is recorded in last.raised; correlate_all is one  *)
(*    atomic step that leaves self.correlations as the code leaves it at   *)
(*    the point where the exception propagates.                            *)
(*  - last records the most recent call: its name (op), its argument       *)
(*    (arg), whether it raised, the value it returned (ret), for           *)
(*    correlate_all and clear how many stored results the call found on    *)
(*    entry (found), and for correlate_all whether the call before it was  *)
(*    correlate_all too (repeat).                                          *)
(*  - analyzer is one OpsecAnalyzer, the record of its fields layer and     *)
(*    signals; the engine never touches it.                                *)
(*  - added counts the signals handed to add_signals since construction    *)
(*    or the last clear.                                                   *)
(***************************************************************************)
EXTENDS Integers, Sequences, FiniteSets, TLC

VARIABLES signals, correlations, last, added, analyzer

vars == <<signals, correlations, last, added, analyzer>>

----------------------------------------------------------------------------
(* Bounds *)

MaxSignals == 4
MaxBatch == 2
MaxTemporalSignals == 3
MaxCrossSignals == 3
MaxConvSignals == 4
MaxGroup == 3
MaxScoreSignals == 3
MaxMitigationSignals == 4
MaxReportSignals == 3
MaxOverrideSignals == 4
MaxAnalyzerSignals == 3
MaxCount == 5

----------------------------------------------------------------------------
(* Data model: src/framework/__init__.py *)

OpsecLayer == {"USERLAND", "KERNEL", "DNS", "NETWORK", "METADATA"}

CorrelationStrength == {"SOLO", "PAIR", "MULTI", "WEAK"}

\* CorrelationStrength.X.value: the enum values are lower-case strings
StrengthValue == [SOLO |-> "solo", PAIR |-> "pair", MULTI |-> "multi", WEAK |-> "weak"]

\* characters of the signal identifiers used as inputs
IdChars ==
  [public_resolver |-> <<"p","u","b","l","i","c","_","r","e","s","o","l","v","e","r">>,
   Resolver        |-> <<"R","e","s","o","l","v","e","r">>,
   AS_path         |-> <<"A","S","_","p","a","t","h">>,
   timezone        |-> <<"t","i","m","e","z","o","n","e">>,
   locale          |-> <<"l","o","c","a","l","e">>,
   timing          |-> <<"t","i","m","i","n","g">>,
   ttl             |-> <<"t","t","l">>]

\* str.lower() on one character
LowerChar(c) ==
  LET up == [A |-> "a", B |-> "b", C |-> "c", D |-> "d", E |-> "e", F |-> "f",
             G |-> "g", H |-> "h", I |-> "i", J |-> "j", K |-> "k", L |-> "l",
             M |-> "m", N |-> "n", O |-> "o", P |-> "p", Q |-> "q", R |-> "r",
             S |-> "s", T |-> "t", U |-> "u", V |-> "v", W |-> "w", X |-> "x",
             Y |-> "y", Z |-> "z"]
  IN IF c \in DOMAIN up THEN up[c] ELSE c

\* str.lower()
Lower(s) == [i \in 1..Len(s) |-> LowerChar(s[i])]

\* Python's `sub in s` on strings
Contains(sub, s) ==
  \E i \in 1..(Len(s) - Len(sub) + 1) : SubSeq(s, i, i + Len(sub) - 1) = sub

----------------------------------------------------------------------------
(* Generic helpers for Python lists, sets and dicts *)

\* set(f(x) for x in seq)
Range(seq) == {seq[i] : i \in 1..Len(seq)}

\* keys of a dict filled by iterating seq, in insertion (first-appearance) order
RECURSIVE FirstSeen(_, _)
FirstSeen(keys, seen) ==
  IF keys = <<>> THEN <<>>
  ELSE IF Head(keys) \in seen THEN FirstSeen(Tail(keys), seen)
       ELSE <<Head(keys)>> \o FirstSeen(Tail(keys), seen \cup {Head(keys)})

KeyOrder(keys) == FirstSeen(keys, {})

RECURSIVE Gcd(_, _)
Gcd(a, b) == IF b = 0 THEN a ELSE Gcd(b, a % b)

RECURSIVE Pow(_, _)
Pow(b, e) == IF e = 0 THEN 1 ELSE b * Pow(b, e - 1)

RECURSIVE SumSeq(_)
SumSeq(s) == IF s = <<>> THEN 0 ELSE Head(s) + SumSeq(Tail(s))

\* a fraction in lowest terms
Frac(n, d) == LET g == Gcd(n, d) IN <<n \div g, d \div g>>

\* a / b >= c / d for positive denominators
FracGeq(a, b, c, d) == a * d >= c * b

----------------------------------------------------------------------------
(* Scoring primitives: src/framework/__init__.py *)

\* base_scores, in tenths
base_scores == [SOLO |-> 8, PAIR |-> 4, MULTI |-> 2, WEAK |-> 1]

LayersOf(sigs) == {sigs[i].layer : i \in 1..Len(sigs)}

\* score without the bonus for additional layers
score_without_layer_bonus(sigs) ==
  IF sigs = <<>> THEN <<0, 1>>
  ELSE LET n == Len(sigs)
           total == SumSeq([i \in 1..n |-> base_scores[sigs[i].correlation_potential]])
           one_minus == Frac(10 * n - total, 10 * n)
           pd == Pow(one_minus[2], n)
       IN Frac(pd - Pow(one_minus[1], n), pd)

\* score without the clamp to 1.0
score_without_clamp(sigs) ==
  IF sigs = <<>> THEN <<0, 1>>
  ELSE LET n == Len(sigs)
           mult == 10 + (Cardinality(LayersOf(sigs)) - 1) * 3
           total == SumSeq([i \in 1..n |-> base_scores[sigs[i].correlation_potential]])
           one_minus == Frac(10 * n - total, 10 * n)
           pd == Pow(one_minus[2], n)
       IN Frac((pd - Pow(one_minus[1], n)) * mult, pd * 10)

\* calculate_correlation_score: min((1 - (1 - avg)^n) * layer_multiplier, 1.0)
calculate_correlation_score(sigs) ==
  IF sigs = <<>> THEN <<0, 1>>
  ELSE LET n == Len(sigs)
           unique_layers == Cardinality(LayersOf(sigs))
           \* layer_multiplier = mult / 10
           mult == 10 + (unique_layers - 1) * 3
           total == SumSeq([i \in 1..n |-> base_scores[sigs[i].correlation_potential]])
           \* 1 - avg_strength = (10n - total) / 10n
           one_minus == Frac(10 * n - total, 10 * n)
           pd == Pow(one_minus[2], n)
           pn == pd - Pow(one_minus[1], n)
           combined_score == Frac(pn * mult, pd * 10)
       IN IF combined_score[1] >= combined_score[2] THEN <<1, 1>> ELSE combined_score

\* a / b > c / d for positive denominators
FracGt(a, b, c, d) == a * d > c * b

\* confidence bands whose boundary values belong to the lower band
confidence_exclusive(score) ==
  IF FracGt(score[1], score[2], 9, 10) THEN "CRITICAL"
  ELSE IF FracGt(score[1], score[2], 7, 10) THEN "HIGH"
  ELSE IF FracGt(score[1], score[2], 4, 10) THEN "MEDIUM"
  ELSE "LOW"

assess_attribution_confidence(score) ==
  IF FracGeq(score[1], score[2], 9, 10) THEN "CRITICAL"
  ELSE IF FracGeq(score[1], score[2], 7, 10) THEN "HIGH"
  ELSE IF FracGeq(score[1], score[2], 4, 10) THEN "MEDIUM"
  ELSE "LOW"

\* risk from the confidence alone
risk_from_confidence_only(attribution_confidence, signal_count) ==
  IF attribution_confidence = "CRITICAL" THEN "CRITICAL - OPSEC COMPROMISED"
  ELSE IF attribution_confidence = "HIGH" THEN "HIGH - ATTRIBUTION LIKELY"
  ELSE IF attribution_confidence = "MEDIUM" THEN "MEDIUM - CORRELATION POSSIBLE"
  ELSE "LOW - INSUFFICIENT CORRELATION"

assess_risk_level(attribution_confidence, signal_count) ==
  IF attribution_confidence = "CRITICAL" \/ signal_count >= 4
    THEN "CRITICAL - OPSEC COMPROMISED"
  ELSE IF attribution_confidence = "HIGH" \/ signal_count >= 3
    THEN "HIGH - ATTRIBUTION LIKELY"
  ELSE IF attribution_confidence = "MEDIUM"
    THEN "MEDIUM - CORRELATION POSSIBLE"
  ELSE "LOW - INSUFFICIENT CORRELATION"

\* a result whose risk is assessed from the number of layers of the group
CorrelationResult_risk_by_layers(group, type, explanation) ==
  LET score == calculate_correlation_score(group)
      confidence == assess_attribution_confidence(score)
  IN [signals |-> group,
      correlation_score |-> score,
      attribution_confidence |-> confidence,
      correlation_type |-> type,
      explanation |-> explanation,
      risk_level |-> assess_risk_level(confidence, Cardinality(LayersOf(group)))]

\* CorrelationResult built the way all three passes build it: score the group,
\* classify the score, classify the risk from the confidence and the group size
CorrelationResult(group, type, explanation) ==
  LET score == calculate_correlation_score(group)
      confidence == assess_attribution_confidence(score)
  IN [signals |-> group,
      correlation_score |-> score,
      attribution_confidence |-> confidence,
      correlation_type |-> type,
      explanation |-> explanation,
      risk_level |-> assess_risk_level(confidence, Len(group))]

----------------------------------------------------------------------------
(* Temporal pass: CorrelationEngine._correlate_temporal *)

time_window_seconds == 300

\* int(x / w) on a float quotient: Python's int() truncates toward zero
IntTrunc(x, w) == IF x >= 0 THEN x \div w ELSE -((-x) \div w)

\* bucket key over windows twice as long
BucketKeyWide(t, w) == IntTrunc(t, 2 * w)

\* bucket_key = int(signal.timestamp.timestamp() / time_window_seconds)
BucketKey(t, w) == IntTrunc(t, w)

\* time_buckets[k]: the signals of bucket k in insertion order
Bucket(sigs, k, w) ==
  LET InBucket(s) == BucketKey(s.timestamp, w) = k IN SelectSeq(sigs, InBucket)

\* time_buckets.items(): bucket keys in order of first appearance
BucketOrder(sigs, w) ==
  KeyOrder([i \in 1..Len(sigs) |-> BucketKey(sigs[i].timestamp, w)])

\* temporal pass that skips the distinct-layer test
correlate_temporal_any_layers(sigs, w) ==
  LET Qualifies(k) == Len(Bucket(sigs, k, w)) >= 2
      keys == SelectSeq(BucketOrder(sigs, w), Qualifies)
  IN [i \in 1..Len(keys) |->
        LET bucket_signals == Bucket(sigs, keys[i], w)
        IN CorrelationResult(bucket_signals, "TEMPORAL",
             <<Len(bucket_signals), Cardinality(LayersOf(bucket_signals)), w>>)]

correlate_temporal(sigs, w) ==
  LET Qualifies(k) ==
        LET bucket_signals == Bucket(sigs, k, w)
        IN Len(bucket_signals) >= 2 /\ Cardinality(LayersOf(bucket_signals)) >= 2
      keys == SelectSeq(BucketOrder(sigs, w), Qualifies)
  IN [i \in 1..Len(keys) |->
        LET bucket_signals == Bucket(sigs, keys[i], w)
        IN CorrelationResult(bucket_signals, "TEMPORAL",
             <<Len(bucket_signals), Cardinality(LayersOf(bucket_signals)), w>>)]

----------------------------------------------------------------------------
(* Cross-layer pass: CorrelationEngine._correlate_cross_layer *)

\* layer_signals.get(layer, [])
LayerSignals(sigs, layer) ==
  LET OfLayer(s) == s.layer = layer IN SelectSeq(sigs, OfLayer)

IdContains(sub, s) == Contains(sub, IdChars[s.signal_id])

IsDnsResolver(s) ==
  \/ IdContains(<<"r","e","s","o","l","v","e","r">>, s)
  \/ IdContains(<<"p","u","b","l","i","c","_","r","e","s","o","l","v","e","r">>, s)

\* the AS test without lower()
IsAsCaseSensitive(s) == IdContains(<<"a","s">>, s)

IsAs(s) == Contains(<<"a","s">>, Lower(IdChars[s.signal_id]))

IsTimezone(s) ==
  \/ IdContains(<<"t","i","m","e","z","o","n","e">>, s)
  \/ IdContains(<<"l","o","c","a","l","e">>, s)

IsTiming(s) ==
  \/ IdContains(<<"t","i","m","e">>, s)
  \/ IdContains(<<"t","i","m","i","n","g">>, s)

\* cross-layer rules that fire when either side of a rule has a signal
correlate_cross_layer_either_side(sigs) ==
  LET dns_resolver_signals == SelectSeq(LayerSignals(sigs, "DNS"), IsDnsResolver)
      as_signals == SelectSeq(LayerSignals(sigs, "NETWORK"), IsAs)
      timezone_signals == SelectSeq(LayerSignals(sigs, "USERLAND"), IsTimezone)
      timing_signals == SelectSeq(LayerSignals(sigs, "METADATA"), IsTiming)
  IN (IF dns_resolver_signals # <<>> \/ as_signals # <<>>
      THEN <<CorrelationResult(dns_resolver_signals \o as_signals,
               "DNS_NETWORK_CORRELATION",
               <<"DNS resolver and network AS signals enable infrastructure correlation">>)>>
      ELSE <<>>)
     \o (IF timezone_signals # <<>> \/ timing_signals # <<>>
         THEN <<CorrelationResult(timezone_signals \o timing_signals,
                  "TIMEZONE_TIMING_CORRELATION",
                  <<"Timezone and activity timing signals enable geographic/human attribution">>)>>
         ELSE <<>>)

correlate_cross_layer(sigs) ==
  LET dns_resolver_signals == SelectSeq(LayerSignals(sigs, "DNS"), IsDnsResolver)
      as_signals == SelectSeq(LayerSignals(sigs, "NETWORK"), IsAs)
      pattern1 ==
        IF dns_resolver_signals # <<>> /\ as_signals # <<>>
        THEN <<CorrelationResult(dns_resolver_signals \o as_signals,
                 "DNS_NETWORK_CORRELATION",
                 <<"DNS resolver and network AS signals enable infrastructure correlation">>)>>
        ELSE <<>>
      timezone_signals == SelectSeq(LayerSignals(sigs, "USERLAND"), IsTimezone)
      timing_signals == SelectSeq(LayerSignals(sigs, "METADATA"), IsTiming)
      pattern2 ==
        IF timezone_signals # <<>> /\ timing_signals # <<>>
        THEN <<CorrelationResult(timezone_signals \o timing_signals,
                 "TIMEZONE_TIMING_CORRELATION",
                 <<"Timezone and activity timing signals enable geographic/human attribution">>)>>
        ELSE <<>>
  IN pattern1 \o pattern2

----------------------------------------------------------------------------
(* Convergence pass: CorrelationEngine._correlate_multi_signal *)

\* the literal list the sort key searches
PriorityList == <<"WEAK", "MULTI", "PAIR", "SOLO">>

\* list.index(v) raises ValueError when v is not an element of the list
IndexRaises(list, v) == v \notin Range(list)

\* list.index(v): 0-based position of the first element equal to v
ListIndex(list, v) ==
  (CHOOSE i \in 1..Len(list) : list[i] = v /\ \A j \in 1..(i - 1) : list[j] # v) - 1

\* the argument the key lambda hands to index(): s.correlation_potential.value
KeyArg(s) == StrengthValue[s.correlation_potential]

\* sorted(seq, key=...): key[i] is the key of seq[i]; the sort is stable, so
\* equal keys keep their insertion order
Sorted(seq, key) ==
  LET n == Len(seq)
      Rank(i) == Cardinality({j \in 1..n :
                   \/ key[j] < key[i]
                   \/ (key[j] = key[i] /\ j < i)}) + 1
  IN [p \in 1..n |-> seq[CHOOSE i \in 1..n : Rank(i) = p]]

\* layer_groups.items(): layers in order of first appearance
LayerOrder(sigs) == KeyOrder([i \in 1..Len(sigs) |-> sigs[i].layer])

\* returns [raised, correlations]; raised is the ValueError of list.index
correlate_multi_signal(sigs) ==
  LET layers == LayerOrder(sigs)
      SortKey(s) == ListIndex(PriorityList, KeyArg(s))
  IN IF Len(layers) >= 3
     THEN IF \E i \in 1..Len(sigs) : IndexRaises(PriorityList, KeyArg(sigs[i]))
          THEN [raised |-> TRUE, correlations |-> <<>>]
          ELSE LET representative_signals ==
                     [i \in 1..Len(layers) |->
                        LET group == LayerSignals(sigs, layers[i])
                            sorted_signals ==
                              Sorted(group, [j \in 1..Len(group) |-> SortKey(group[j])])
                        IN sorted_signals[1]]
               IN [raised |-> FALSE,
                   correlations |->
                     IF Len(representative_signals) >= 3
                     THEN <<CorrelationResult(representative_signals,
                              "MULTI_LAYER_CONVERGENCE",
                              <<Len(representative_signals)>>)>>
                     ELSE <<>>]
     ELSE [raised |-> FALSE, correlations |-> <<>>]

----------------------------------------------------------------------------
(* CorrelationEngine: lifecycle *)

\* correlate_all that keeps the previous results and extends them
correlate_all_merging(sigs, old) ==
  LET multi == correlate_multi_signal(sigs)
      before_multi == (old \o correlate_temporal(sigs, time_window_seconds))
                        \o correlate_cross_layer(sigs)
  IN IF multi.raised
     THEN [correlations |-> before_multi, raised |-> TRUE, ret |-> <<>>]
     ELSE [correlations |-> before_multi \o multi.correlations,
           raised |-> FALSE,
           ret |-> before_multi \o multi.correlations]

\* correlate_all that runs the cross-layer pass before the temporal pass
correlate_all_reordered(sigs, old) ==
  LET multi == correlate_multi_signal(sigs)
      before_multi == correlate_cross_layer(sigs)
                        \o correlate_temporal(sigs, time_window_seconds)
  IN IF multi.raised
     THEN [correlations |-> before_multi, raised |-> TRUE, ret |-> <<>>]
     ELSE [correlations |-> before_multi \o multi.correlations,
           raised |-> FALSE,
           ret |-> before_multi \o multi.correlations]

\* correlate_all that keeps the results of the previous run when a pass raises
correlate_all_transactional(sigs, old) ==
  LET multi == correlate_multi_signal(sigs)
      before_multi == correlate_temporal(sigs, time_window_seconds)
                        \o correlate_cross_layer(sigs)
  IN IF multi.raised
     THEN [correlations |-> old, raised |-> TRUE, ret |-> <<>>]
     ELSE [correlations |-> before_multi \o multi.correlations,
           raised |-> FALSE,
           ret |-> before_multi \o multi.correlations]

\* correlate_all on accumulated signals sigs when self.correlations is old:
\* the list is reset, then extended pass by pass; an exception in the last
\* pass leaves the extensions made so far and returns nothing
correlate_all_outcome(sigs, old) ==
  LET reset == <<>>
      temporal_corrs == correlate_temporal(sigs, time_window_seconds)
      cross_layer_corrs == correlate_cross_layer(sigs)
      multi == correlate_multi_signal(sigs)
      before_multi == (reset \o temporal_corrs) \o cross_layer_corrs
  IN IF multi.raised
     THEN [correlations |-> before_multi, raised |-> TRUE, ret |-> <<>>]
     ELSE [correlations |-> before_multi \o multi.correlations,
           raised |-> FALSE,
           ret |-> before_multi \o multi.correlations]

\* all lists of at most MaxBatch signals of a producer's domain that fit in room
Batches(Domain, room) ==
  UNION {[1..k -> Domain] : k \in 0..(IF room < MaxBatch THEN room ELSE MaxBatch)}

\* the record of a call that returned ret
Call(op, arg, ret) ==
  [op |-> op, arg |-> arg, raised |-> FALSE, ret |-> ret, found |-> 0, repeat |-> FALSE]

\* OpsecAnalyzer.__init__(layer)
NewAnalyzer(layer) == [layer |-> layer, signals |-> <<>>]

Init ==
  /\ signals = <<>>
  /\ correlations = <<>>
  /\ added = 0
  /\ analyzer = NewAnalyzer("DNS")
  /\ last = Call("init", <<>>, <<>>)

\* list.extend that skips the elements the list already holds
extend_unique(list, batch) ==
  LET IsNew(x) == x \notin Range(list) IN list \o SelectSeq(batch, IsNew)

\* list.extend(batch)
extend(list, batch) == list \o batch

\* add_signals that drops the stored results, which no longer cover the signals
add_signals_invalidating(Domain, Max) ==
  \E batch \in Batches(Domain, Max - Len(signals)) :
    /\ signals' = extend(signals, batch)
    /\ added' = added + Len(batch)
    /\ correlations' = <<>>
    /\ UNCHANGED analyzer
    /\ last' = Call("add_signals", batch, <<>>)

add_signals(Domain, Max) ==
  \E batch \in Batches(Domain, Max - Len(signals)) :
    /\ signals' = extend(signals, batch)
    /\ added' = added + Len(batch)
    /\ UNCHANGED <<correlations, analyzer>>
    /\ last' = Call("add_signals", batch, <<>>)

\* clear that resets the signals only
clear_signals_only ==
  /\ signals' = <<>>
  /\ added' = 0
  /\ UNCHANGED <<correlations, analyzer>>
  /\ last' = [Call("clear", <<>>, <<>>) EXCEPT !.found = Len(correlations)]

clear ==
  /\ signals' = <<>>
  /\ correlations' = <<>>
  /\ added' = 0
  /\ UNCHANGED analyzer
  /\ last' = [Call("clear", <<>>, <<>>) EXCEPT !.found = Len(correlations)]

correlate_all ==
  LET out == correlate_all_outcome(signals, correlations)
  IN /\ correlations' = out.correlations
     /\ last' = [op |-> "correlate_all", arg |-> <<>>, raised |-> out.raised,
                 ret |-> out.ret, found |-> Len(correlations),
                 repeat |-> (last.op = "correlate_all")]
     /\ UNCHANGED <<signals, added, analyzer>>

----------------------------------------------------------------------------
(* Producers' domains and the specifications *)

Sig(id, layer, t, p) ==
  [signal_id |-> id, layer |-> layer, timestamp |-> t, correlation_potential |-> p]

\* lifecycle: one matching identifier per layer; the DNS and NETWORK signals
\* fall in two time buckets
DefaultId == [DNS |-> "public_resolver", NETWORK |-> "AS_path",
              USERLAND |-> "timezone", METADATA |-> "timing"]

LifecycleDomain ==
  {Sig(DefaultId[l], l, t, "SOLO") : l \in {"DNS", "NETWORK"}, t \in {0, 400}}
    \cup {Sig(DefaultId[l], l, 0, "SOLO") : l \in {"USERLAND", "METADATA"}}

\* temporal pass: timestamps around a bucket edge and on both sides of the epoch
Timestamps == {-200, 5, 15, 200, 295, 305, 600}

TemporalDomain ==
  {Sig("ttl", l, t, "SOLO") : l \in {"DNS", "KERNEL"}, t \in Timestamps}

\* cross-layer pass: each identifier on a layer where its rule reads it and on
\* a layer where it does not
CrossIdLayers ==
  {<<"public_resolver", "DNS">>, <<"public_resolver", "NETWORK">>,
   <<"Resolver", "DNS">>,
   <<"AS_path", "NETWORK">>, <<"AS_path", "DNS">>,
   <<"timezone", "USERLAND">>, <<"timezone", "METADATA">>,
   <<"locale", "USERLAND">>, <<"locale", "METADATA">>,
   <<"timing", "METADATA">>, <<"timing", "USERLAND">>}

CrossDomain == {Sig(il[1], il[2], 0, "SOLO") : il \in CrossIdLayers}

\* convergence pass: every potential on three layers
ConvDomain ==
  {Sig("ttl", l, 0, p) : l \in {"DNS", "KERNEL", "USERLAND"}, p \in CorrelationStrength}

Next ==
  \/ add_signals(LifecycleDomain, MaxSignals)
  \/ clear
  \/ correlate_all

Spec == Init /\ [][Next]_vars

NextTemporal ==
  \/ add_signals(TemporalDomain, MaxTemporalSignals)
  \/ clear
  \/ correlate_all

SpecTemporal == Init /\ [][NextTemporal]_vars

NextCross ==
  \/ add_signals(CrossDomain, MaxCrossSignals)
  \/ clear
  \/ correlate_all

SpecCross == Init /\ [][NextCross]_vars

NextConv ==
  \/ add_signals(ConvDomain, MaxConvSignals)
  \/ clear
  \/ correlate_all

SpecConv == Init /\ [][NextConv]_vars

\* the stored results whose risk_level is HIGH or CRITICAL
high_risk_by_risk_level(corrs) ==
  LET HighRisk(c) == c.risk_level \in {"HIGH - ATTRIBUTION LIKELY",
                                       "CRITICAL - OPSEC COMPROMISED"}
  IN SelectSeq(corrs, HighRisk)

\* get_high_risk_correlations: the stored results of confidence HIGH or CRITICAL
get_high_risk_correlations(corrs) ==
  LET HighRisk(c) == c.attribution_confidence \in {"HIGH", "CRITICAL"}
  IN SelectSeq(corrs, HighRisk)

\* entries that include one for a TEMPORAL result
recommendation_for_any_type(corr) ==
  <<[priority |-> IF corr.correlation_type = "TIMEZONE_TIMING_CORRELATION"
                  THEN "HIGH" ELSE "CRITICAL",
     issue |-> <<corr.correlation_type>>,
     recommendation |-> "",
     layers |-> LayersOf(corr.signals)]>>

\* the entry appended for one high-risk result, <<>> for a type without an
\* entry; the formatted issue is the sequence of its parts, layers is the set of
\* the listed layers
recommendation_for(corr) ==
  IF corr.correlation_type = "DNS_NETWORK_CORRELATION"
  THEN <<[priority |-> "CRITICAL",
          issue |-> <<"DNS resolver and network AS mismatch">>,
          recommendation |-> "Use DNS resolver in same AS as VPN exit, or deploy private recursive resolver",
          layers |-> {"DNS", "NETWORK"}]>>
  ELSE IF corr.correlation_type = "TIMEZONE_TIMING_CORRELATION"
  THEN <<[priority |-> "HIGH",
          issue |-> <<"Timezone and activity timing correlation">>,
          recommendation |-> "Automate operations with randomized timing, or operate across multiple timezones",
          layers |-> {"USERLAND", "METADATA"}]>>
  ELSE IF corr.correlation_type = "MULTI_LAYER_CONVERGENCE"
  THEN <<[priority |-> "CRITICAL",
          issue |-> <<"Signals from", Len(corr.signals), "layers correlate">>,
          recommendation |-> "Break correlation chains by isolating operational layers and adding noise/diversity",
          layers |-> LayersOf(corr.signals)]>>
  ELSE <<>>

RECURSIVE recommendations_of(_)
recommendations_of(corrs) ==
  IF corrs = <<>> THEN <<>>
  ELSE recommendation_for(Head(corrs)) \o recommendations_of(Tail(corrs))

RecKey(rec) == <<rec.priority, rec.issue>>

\* the deduplication loop: an entry is kept when its key was not seen before
RECURSIVE unique_recommendations(_, _)
unique_recommendations(recommendations, seen) ==
  IF recommendations = <<>> THEN <<>>
  ELSE LET rec == Head(recommendations)
       IN IF RecKey(rec) \in seen
          THEN unique_recommendations(Tail(recommendations), seen)
          ELSE <<rec>> \o unique_recommendations(Tail(recommendations),
                                                 seen \cup {RecKey(rec)})

\* recommendations built from every stored result, whatever its confidence
recommendations_unfiltered(corrs) ==
  unique_recommendations(recommendations_of(corrs), {})

\* recommendations whose deduplication keeps the entries newest first
recommendations_newest_first(corrs) ==
  LET unique == unique_recommendations(
                  recommendations_of(get_high_risk_correlations(corrs)), {})
  IN [i \in 1..Len(unique) |-> unique[Len(unique) + 1 - i]]

get_mitigation_recommendations_of(corrs) ==
  unique_recommendations(recommendations_of(get_high_risk_correlations(corrs)), {})

\* get_mitigation_recommendations(): reads self.correlations, changes nothing;
\* repeat records that it follows a second correlate_all in a row
get_mitigation_recommendations ==
  /\ last' = [Call("get_mitigation_recommendations", <<>>,
                   get_mitigation_recommendations_of(correlations))
                EXCEPT !.found = Len(correlations),
                       !.repeat = (last.op = "correlate_all" /\ last.repeat)]
  /\ UNCHANGED <<signals, correlations, added, analyzer>>

\* recommendations: both rules of the cross-layer pass, each with a strong and
\* a faint pair of signals
MitigationDomain ==
  {Sig(DefaultId[l], l, 0, p) : l \in {"DNS", "NETWORK"}, p \in {"SOLO", "MULTI"}}
    \cup {Sig(DefaultId[l], l, 0, "SOLO") : l \in {"USERLAND", "METADATA"}}

NextMitigation ==
  \/ add_signals(MitigationDomain, MaxMitigationSignals)
  \/ clear
  \/ correlate_all
  \/ get_mitigation_recommendations

SpecMitigation == Init /\ [][NextMitigation]_vars

\* scoring of stored results: every potential on the two layers of the DNS
\* rule, and two signals of a second time bucket
ScoredDomain ==
  {Sig(DefaultId[l], l, 0, p) : l \in {"DNS", "NETWORK"}, p \in CorrelationStrength}
    \cup {Sig("public_resolver", "DNS", 400, "SOLO"), Sig("AS_path", "NETWORK", 400, "WEAK")}

NextScored ==
  \/ add_signals(ScoredDomain, MaxScoreSignals)
  \/ clear
  \/ correlate_all

SpecScored == Init /\ [][NextScored]_vars

----------------------------------------------------------------------------
(* CorrelationEngine: queries and report *)

\* OpsecLayer.X.value
LayerValue == [USERLAND |-> "userland", KERNEL |-> "kernel", DNS |-> "dns",
               NETWORK |-> "network", METADATA |-> "metadata"]

\* Signal.to_dict, for the fields of the modelled Signal; isoformat() is kept
\* as the tagged number of seconds
Signal_to_dict(s) ==
  [signal_id |-> s.signal_id,
   layer |-> LayerValue[s.layer],
   timestamp |-> <<"isoformat", s.timestamp>>,
   correlation_potential |-> StrengthValue[s.correlation_potential]]

\* CorrelationResult.to_dict
CorrelationResult_to_dict(c) ==
  [signal_count |-> Len(c.signals),
   signal_layers |-> [i \in 1..Len(c.signals) |-> LayerValue[c.signals[i].layer]],
   correlation_score |-> c.correlation_score,
   attribution_confidence |-> c.attribution_confidence,
   correlation_type |-> c.correlation_type,
   explanation |-> c.explanation,
   risk_level |-> c.risk_level,
   signals |-> [i \in 1..Len(c.signals) |-> Signal_to_dict(c.signals[i])]]

\* the stored results of confidence HIGH or CRITICAL under the name of the
\* critical ones
critical_including_high(corrs) ==
  LET Critical(c) == c.attribution_confidence \in {"HIGH", "CRITICAL"}
  IN SelectSeq(corrs, Critical)

\* get_critical_correlations: the stored results of confidence CRITICAL
get_critical_correlations_of(corrs) ==
  LET Critical(c) == c.attribution_confidence = "CRITICAL"
  IN SelectSeq(corrs, Critical)

\* a counter that records each key that occurs once
CountBy_presence(keys) == [k \in Range(keys) |-> 1]

\* a defaultdict(int) counter turned into a dict: the keys that occur, each
\* with its number of occurrences
CountBy(keys) ==
  [k \in Range(keys) |-> Cardinality({i \in 1..Len(keys) : keys[i] = k})]

\* a / b < c / d for non-negative numerators and positive denominators, by
\* comparing the integer parts and then the remainders, so that no product of
\* two denominators is formed
RECURSIVE FracLess(_, _, _, _)
FracLess(a, b, c, d) ==
  IF a \div b # c \div d THEN a \div b < c \div d
  ELSE IF a % b = 0 THEN c % d # 0
  ELSE IF c % d = 0 THEN FALSE
  ELSE FracLess(d, c % d, b, a % b)

\* float comparison of two scores
ScoreLess(x, y) == FracLess(x[1], x[2], y[1], y[2])

\* max that returns the last of the maximal elements
RECURSIVE max_last_by_score(_, _)
max_last_by_score(best, rest) ==
  IF rest = <<>> THEN best
  ELSE LET c == Head(rest)
       IN IF ~ScoreLess(c.correlation_score, best.correlation_score)
          THEN max_last_by_score(c, Tail(rest))
          ELSE max_last_by_score(best, Tail(rest))

\* max(corrs, key=score) from the element best on: a later element replaces
\* it only when its score is strictly greater
RECURSIVE max_by_score(_, _)
max_by_score(best, rest) ==
  IF rest = <<>> THEN best
  ELSE LET c == Head(rest)
       IN IF ScoreLess(best.correlation_score, c.correlation_score)
          THEN max_by_score(c, Tail(rest))
          ELSE max_by_score(best, Tail(rest))

\* the report built by generate_report; None is the empty sequence and a
\* present highest_risk_correlation a sequence of one dict; the wall-clock
\* field 'timestamp' is left out
report_of(sigs, corrs) ==
  LET layer_counts == CountBy([i \in 1..Len(sigs) |-> LayerValue[sigs[i].layer]])
      risk_counts == CountBy([i \in 1..Len(corrs) |-> corrs[i].attribution_confidence])
      highest_risk == IF corrs # <<>>
                      THEN <<CorrelationResult_to_dict(max_by_score(Head(corrs), Tail(corrs)))>>
                      ELSE <<>>
      critical == get_critical_correlations_of(corrs)
  IN [summary |-> [total_signals |-> Len(sigs),
                   signals_by_layer |-> layer_counts,
                   total_correlations |-> Len(corrs),
                   correlations_by_confidence |-> risk_counts],
      highest_risk_correlation |-> highest_risk,
      critical_correlations |->
        [i \in 1..Len(critical) |-> CorrelationResult_to_dict(critical[i])],
      all_correlations |-> [i \in 1..Len(corrs) |-> CorrelationResult_to_dict(corrs[i])],
      all_signals |-> [i \in 1..Len(sigs) |-> Signal_to_dict(sigs[i])]]

\* a read-only call: records what it returned and how many stored results it
\* found
Query(op, ret) ==
  /\ last' = [Call(op, <<>>, ret) EXCEPT !.found = Len(correlations)]
  /\ UNCHANGED <<signals, correlations, added, analyzer>>

get_critical_correlations ==
  Query("get_critical_correlations", get_critical_correlations_of(correlations))

query_high_risk_correlations ==
  Query("get_high_risk_correlations", get_high_risk_correlations(correlations))

\* generate_report that hands over the stored results and forgets them
generate_report_draining ==
  /\ last' = [Call("generate_report", <<>>, report_of(signals, correlations))
                EXCEPT !.found = Len(correlations)]
  /\ correlations' = <<>>
  /\ UNCHANGED <<signals, added, analyzer>>

generate_report ==
  Query("generate_report", report_of(signals, correlations))

\* reports and queries: two confidence-relevant potentials on the layers of
\* the DNS rule, a strong NETWORK signal of a later bucket, and the pair of the
\* timezone rule
ReportDomain ==
  {Sig(DefaultId[l], l, 0, p) : l \in {"DNS", "NETWORK"}, p \in {"PAIR", "MULTI"}}
    \cup {Sig("AS_path", "NETWORK", 400, "SOLO")}
    \cup {Sig(DefaultId[l], l, 0, "SOLO") : l \in {"USERLAND", "METADATA"}}

NextReport ==
  \/ add_signals(ReportDomain, MaxReportSignals)
  \/ clear
  \/ correlate_all
  \/ get_critical_correlations
  \/ query_high_risk_correlations
  \/ generate_report
  \/ get_mitigation_recommendations

SpecReport == Init /\ [][NextReport]_vars

\* the count override: faint signals only, on the layers of both rules
OverrideDomain ==
  {Sig(DefaultId[l], l, 0, "WEAK") : l \in {"DNS", "NETWORK", "USERLAND", "METADATA"}}

NextOverride ==
  \/ add_signals(OverrideDomain, MaxOverrideSignals)
  \/ clear
  \/ correlate_all
  \/ get_critical_correlations
  \/ query_high_risk_correlations
  \/ generate_report
  \/ get_mitigation_recommendations

SpecOverride == Init /\ [][NextOverride]_vars

----------------------------------------------------------------------------
(* OpsecAnalyzer: src/framework/__init__.py *)

\* signals a detector may hand to an analyzer: two per layer
AnalyzerDomain ==
  {Sig("ttl", l, 0, p) : l \in OpsecLayer, p \in {"SOLO", "WEAK"}}

InitAnalyzer ==
  /\ signals = <<>>
  /\ correlations = <<>>
  /\ added = 0
  /\ analyzer \in {NewAnalyzer(layer) : layer \in OpsecLayer}
  /\ last = Call("init", <<>>, <<>>)

\* add_signal that appends without looking at the layer
add_signal_unchecked ==
  \E signal \in AnalyzerDomain :
    /\ Len(analyzer.signals) < MaxAnalyzerSignals
    /\ analyzer' = [analyzer EXCEPT !.signals = Append(@, signal)]
    /\ last' = Call("add_signal", signal, <<>>)
    /\ UNCHANGED <<signals, correlations, added>>

\* add_signal(signal): ValueError for a signal of another layer, append
\* otherwise
add_signal ==
  \E signal \in AnalyzerDomain :
    IF signal.layer # analyzer.layer
    THEN /\ last' = [Call("add_signal", signal, <<>>) EXCEPT !.raised = TRUE]
         /\ UNCHANGED <<signals, correlations, added, analyzer>>
    ELSE /\ Len(analyzer.signals) < MaxAnalyzerSignals
         /\ analyzer' = [analyzer EXCEPT !.signals = Append(@, signal)]
         /\ last' = Call("add_signal", signal, <<>>)
         /\ UNCHANGED <<signals, correlations, added>>

\* clear_signals()
clear_signals ==
  /\ analyzer' = [analyzer EXCEPT !.signals = <<>>]
  /\ last' = Call("clear_signals", <<>>, <<>>)
  /\ UNCHANGED <<signals, correlations, added>>

\* get_signals(): the list itself
get_signals ==
  /\ last' = Call("get_signals", <<>>, analyzer.signals)
  /\ UNCHANGED <<signals, correlations, added, analyzer>>

NextAnalyzer ==
  \/ add_signal
  \/ clear_signals
  \/ get_signals

SpecAnalyzer == InitAnalyzer /\ [][NextAnalyzer]_vars

----------------------------------------------------------------------------
(* Direct calls of the scoring primitives *)

\* groups of signals: every potential on three layers
ScoreDomain ==
  {Sig("ttl", l, 0, p) : l \in {"DNS", "KERNEL", "USERLAND"}, p \in CorrelationStrength}

Groups == UNION {[1..k -> ScoreDomain] : k \in 0..MaxGroup}

\* scores around the band boundaries, in hundred-thousandths
ScoreGrid ==
  {<<k, 100000>> : k \in {0, 39999, 40000, 40001, 69999, 70000, 70001,
                          89999, 90000, 90001, 100000}}

Confidences == {"LOW", "MEDIUM", "HIGH", "CRITICAL"}

\* a caller holds one input of one of the three primitives
InitPure ==
  /\ signals = <<>>
  /\ correlations = <<>>
  /\ added = 0
  /\ analyzer = NewAnalyzer("DNS")
  /\ last \in {Call("group", group, <<>>) : group \in Groups}
        \cup {Call("score", score, <<>>) : score \in ScoreGrid}
        \cup {Call("confidence_count", <<confidence, count>>, <<>>) :
                confidence \in Confidences, count \in 0..MaxCount}

call_calculate_correlation_score ==
  /\ last.op = "group"
  /\ last' = Call("calculate_correlation_score", last.arg,
                  calculate_correlation_score(last.arg))
  /\ UNCHANGED <<signals, correlations, added, analyzer>>

call_assess_attribution_confidence ==
  /\ last.op = "score"
  /\ last' = Call("assess_attribution_confidence", last.arg,
                  assess_attribution_confidence(last.arg))
  /\ UNCHANGED <<signals, correlations, added, analyzer>>

call_assess_risk_level ==
  /\ last.op = "confidence_count"
  /\ last' = Call("assess_risk_level", last.arg,
                  assess_risk_level(last.arg[1], last.arg[2]))
  /\ UNCHANGED <<signals, correlations, added, analyzer>>

NextPure ==
  \/ call_calculate_correlation_score
  \/ call_assess_attribution_confidence
  \/ call_assess_risk_level

SpecPure == InitPure /\ [][NextPure]_vars

----------------------------------------------------------------------------
(* Vocabulary of the properties *)

\* the stored results of one correlation type, in stored order
OfType(corrs, type) ==
  LET HasType(c) == c.correlation_type = type IN SelectSeq(corrs, HasType)

\* a correlate_all call has just completed or raised
AfterCorrelate == last.op = "correlate_all"

----------------------------------------------------------------------------
(* C1: the results stored by correlate_all depend on the accumulated signals
   only: a call stores what an engine with no stored results would store for
   the same signals, whatever it found stored on entry, and a call that
   directly follows another call stores the same number of results. *)
C1_FreshEachRun ==
  [][last'.op = "correlate_all" =>
       /\ correlations' = correlate_all_outcome(signals', <<>>).correlations
       /\ (AfterCorrelate => Len(correlations') = Len(correlations))]_vars

\* a call that found earlier results stored and left a different number
C1_Witness ==
  /\ AfterCorrelate
  /\ last.found > 0
  /\ Len(correlations) > 0
  /\ Len(correlations) # last.found

----------------------------------------------------------------------------
(* C2: correlate_all returns, without raising, for every accumulated sequence
   of well-formed signals, including sequences that span three or more
   distinct layers. *)
C2_NeverRaises == AfterCorrelate => ~last.raised

----------------------------------------------------------------------------
(* C3: after correlate_all the stored results hold exactly one
   MULTI_LAYER_CONVERGENCE result when the accumulated signals span at least
   3 distinct layers, with exactly one signal per layer present, and none
   when they span fewer than 3 layers. *)
C3_OneConvergenceResult ==
  AfterCorrelate =>
    LET layers == LayersOf(signals)
        mlc == OfType(correlations, "MULTI_LAYER_CONVERGENCE")
    IN IF Cardinality(layers) >= 3
       THEN /\ Len(mlc) = 1
            /\ Len(mlc[1].signals) = Cardinality(layers)
            /\ LayersOf(mlc[1].signals) = layers
       ELSE Len(mlc) = 0

----------------------------------------------------------------------------
(* C4: in the convergence result the representative of each layer is the
   first-added signal of that layer among those whose potential has the
   lowest index in [WEAK, MULTI, PAIR, SOLO]. *)
PotentialIndex == [WEAK |-> 0, MULTI |-> 1, PAIR |-> 2, SOLO |-> 3]

WeakestFirst(layer) ==
  LET group == LayerSignals(signals, layer)
      IsWeakest(i) ==
        \A j \in 1..Len(group) :
          PotentialIndex[group[i].correlation_potential]
            <= PotentialIndex[group[j].correlation_potential]
  IN group[CHOOSE i \in 1..Len(group) :
             IsWeakest(i) /\ \A j \in 1..(i - 1) : ~IsWeakest(j)]

C4_WeakestRepresentative ==
  (AfterCorrelate /\ Cardinality(LayersOf(signals)) >= 3) =>
    \E i \in 1..Len(correlations) :
      /\ correlations[i].correlation_type = "MULTI_LAYER_CONVERGENCE"
      /\ \A layer \in LayersOf(signals) :
           LayerSignals(correlations[i].signals, layer) = <<WeakestFirst(layer)>>

----------------------------------------------------------------------------
(* Vocabulary of the temporal properties *)

Abs(x) == IF x < 0 THEN -x ELSE x

\* floor(t / w), the bucket key the specification names
FloorKey(t, w) == t \div w

\* the engine holds exactly two signals, of two distinct layers, d seconds apart
TwoSignals(d) ==
  /\ Len(signals) = 2
  /\ signals[1].layer # signals[2].layer
  /\ Abs(signals[1].timestamp - signals[2].timestamp) = d

NumTemporal == Len(OfType(correlations, "TEMPORAL"))

----------------------------------------------------------------------------
(* C5 as stated: two signals of two distinct layers, 10 seconds apart, always
   give exactly one TEMPORAL result. *)
C5_AlwaysOneTemporal == (AfterCorrelate /\ TwoSignals(10)) => NumTemporal = 1

(* C5 as amended: two signals of two distinct layers, 10 seconds apart, give
   exactly one TEMPORAL result when both timestamps have the same bucket key
   int(t / 300), and none when a bucket edge lies between them. *)
C5_OneTemporalIffSameBucket ==
  (AfterCorrelate /\ TwoSignals(10)) =>
    NumTemporal =
      (IF IntTrunc(signals[1].timestamp, 300) = IntTrunc(signals[2].timestamp, 300)
       THEN 1 ELSE 0)

\* both outcomes: 5 and 15 share a bucket
C5_Witness ==
  /\ AfterCorrelate
  /\ TwoSignals(10)
  /\ NumTemporal = 1
  /\ signals[1].timestamp = 5

----------------------------------------------------------------------------
(* C6: two signals of two distinct layers, 400 seconds apart, give no
   TEMPORAL result, wherever the two timestamps lie. *)
C6_NoTemporalAt400 == (AfterCorrelate /\ TwoSignals(400)) => NumTemporal = 0

----------------------------------------------------------------------------
(* C7: after correlate_all, two accumulated signals of distinct layers share
   a TEMPORAL result if and only if their floor(t / 300) values are equal,
   the bucket key being floor(t / 300) also before the epoch. *)
C7_FloorBuckets ==
  AfterCorrelate =>
    \A i, j \in 1..Len(signals) :
      signals[i].layer # signals[j].layer =>
        ((\E k \in 1..Len(correlations) :
            /\ correlations[k].correlation_type = "TEMPORAL"
            /\ signals[i] \in Range(correlations[k].signals)
            /\ signals[j] \in Range(correlations[k].signals))
         <=> FloorKey(signals[i].timestamp, 300) = FloorKey(signals[j].timestamp, 300))

----------------------------------------------------------------------------
(* C8: after correlate_all there is exactly one TEMPORAL result for each
   bucket holding at least 2 signals of at least 2 distinct layers and none
   for any other bucket; a result's signals are the bucket's signals in
   insertion order, and no accumulated signal is in two TEMPORAL results. *)
SameBucketAs(s) ==
  LET Same(x) == IntTrunc(x.timestamp, 300) = IntTrunc(s.timestamp, 300)
  IN SelectSeq(signals, Same)

C8_OneResultPerQualifyingBucket ==
  AfterCorrelate =>
    LET temporal == OfType(correlations, "TEMPORAL")
        ResultsWith(s) == {k \in 1..Len(temporal) : s \in Range(temporal[k].signals)}
    IN /\ \A i \in 1..Len(signals) :
            LET group == SameBucketAs(signals[i])
            IN IF Len(group) >= 2 /\ Cardinality(LayersOf(group)) >= 2
               THEN /\ Cardinality(ResultsWith(signals[i])) = 1
                    /\ \A k \in ResultsWith(signals[i]) : temporal[k].signals = group
               ELSE ResultsWith(signals[i]) = {}
       /\ \A k \in 1..Len(temporal) : temporal[k].signals # <<>>

\* a qualifying bucket of two signals next to a bucket that does not qualify
C8_Witness ==
  /\ AfterCorrelate
  /\ Len(signals) = 3
  /\ NumTemporal = 1
  /\ Len(correlations[1].signals) = 2
  /\ signals[2] \notin Range(correlations[1].signals)

----------------------------------------------------------------------------
(* Vocabulary of the cross-layer properties *)

\* the accumulated signals of a layer whose identifier, lower-cased when fold
\* is set, contains one of the given substrings
Matches(layer, subs, fold) ==
  LET chars(s) == IF fold THEN Lower(IdChars[s.signal_id]) ELSE IdChars[s.signal_id]
      Hit(s) == s.layer = layer /\ \E sub \in subs : Contains(sub, chars(s))
  IN SelectSeq(signals, Hit)

\* a rule fires exactly once when both match lists are non-empty, the result
\* holding the first list followed by the second, and not at all otherwise
FiresOnceOn(type, first, second) ==
  LET results == OfType(correlations, type)
  IN IF first # <<>> /\ second # <<>>
     THEN Len(results) = 1 /\ results[1].signals = first \o second
     ELSE results = <<>>

DnsNetworkRule ==
  FiresOnceOn("DNS_NETWORK_CORRELATION",
    Matches("DNS", {<<"r","e","s","o","l","v","e","r">>}, FALSE),
    Matches("NETWORK", {<<"a","s">>}, TRUE))

----------------------------------------------------------------------------
(* C9 as stated: each cross-layer rule yields exactly one result if and only
   if both predicates match, the timing predicate being "a METADATA signal
   whose id contains time". *)
C9_RulesWithTimeOnly ==
  AfterCorrelate =>
    /\ DnsNetworkRule
    /\ FiresOnceOn("TIMEZONE_TIMING_CORRELATION",
         Matches("USERLAND", {<<"t","i","m","e","z","o","n","e">>,
                              <<"l","o","c","a","l","e">>}, FALSE),
         Matches("METADATA", {<<"t","i","m","e">>}, FALSE))

(* C9 as amended: the same, the timing predicate being "a METADATA signal
   whose id contains time or timing". *)
C9_RulesWithTimeOrTiming ==
  AfterCorrelate =>
    /\ DnsNetworkRule
    /\ FiresOnceOn("TIMEZONE_TIMING_CORRELATION",
         Matches("USERLAND", {<<"t","i","m","e","z","o","n","e">>,
                              <<"l","o","c","a","l","e">>}, FALSE),
         Matches("METADATA", {<<"t","i","m","e">>,
                              <<"t","i","m","i","n","g">>}, FALSE))

\* the DNS rule fired on one resolver signal and one AS signal while an AS
\* identifier on the DNS layer was not counted
C9_Witness ==
  /\ AfterCorrelate
  /\ Len(signals) = 3
  /\ \E k \in 1..Len(correlations) :
       /\ correlations[k].correlation_type = "DNS_NETWORK_CORRELATION"
       /\ Len(correlations[k].signals) = 2
       /\ correlations[k].signals[2].signal_id = "AS_path"
  /\ \E i \in 1..3 : signals[i].signal_id = "AS_path" /\ signals[i].layer = "DNS"

----------------------------------------------------------------------------
(* C10: the stored and the returned sequence list every TEMPORAL result
   before every DNS_NETWORK_CORRELATION result, that before every
   TIMEZONE_TIMING_CORRELATION result, that before the
   MULTI_LAYER_CONVERGENCE result; TEMPORAL results are in the order in
   which their buckets first appear in the accumulated signals. *)
PassRank == [TEMPORAL |-> 1, DNS_NETWORK_CORRELATION |-> 2,
             TIMEZONE_TIMING_CORRELATION |-> 3, MULTI_LAYER_CONVERGENCE |-> 4]

\* position in the accumulated signals of the first signal of a result
FirstPosition(c) ==
  CHOOSE p \in 1..Len(signals) :
    /\ signals[p] \in Range(c.signals)
    /\ \A q \in 1..(p - 1) : signals[q] \notin Range(c.signals)

InPassOrder(corrs) ==
  \A i, j \in 1..Len(corrs) :
    i < j =>
      /\ PassRank[corrs[i].correlation_type] <= PassRank[corrs[j].correlation_type]
      /\ (corrs[i].correlation_type = "TEMPORAL" /\ corrs[j].correlation_type = "TEMPORAL"
            => FirstPosition(corrs[i]) < FirstPosition(corrs[j]))

C10_PassOrder ==
  AfterCorrelate =>
    /\ InPassOrder(correlations)
    /\ InPassOrder(last.ret)
    /\ (~last.raised => last.ret = correlations)

\* two TEMPORAL results, the later bucket first, then a DNS_NETWORK result
C10_Witness ==
  /\ AfterCorrelate
  /\ ~last.raised
  /\ Len(last.ret) = 3
  /\ last.ret[1].correlation_type = "TEMPORAL"
  /\ last.ret[2].correlation_type = "TEMPORAL"
  /\ last.ret[3].correlation_type = "DNS_NETWORK_CORRELATION"
  /\ last.ret[1].signals[1].timestamp > last.ret[2].signals[1].timestamp

----------------------------------------------------------------------------
(* C11: correlate_all is deterministic and idempotent: a call that directly
   follows another call, with no add_signals or clear between them, returns
   the same sequence, raises in the same cases and stores the same results;
   every call returns what a second engine holding the same signals and no
   stored results returns. *)
C11_Idempotent ==
  [][last'.op = "correlate_all" =>
       /\ last'.ret = correlate_all_outcome(signals', <<>>).ret
       /\ last'.raised = correlate_all_outcome(signals', <<>>).raised
       /\ (AfterCorrelate =>
             /\ last'.ret = last.ret
             /\ last'.raised = last.raised
             /\ correlations' = correlations)]_vars

\* a second call in a row that returned two or more results
C11_Witness ==
  /\ AfterCorrelate
  /\ last.repeat
  /\ ~last.raised
  /\ Len(last.ret) >= 2

----------------------------------------------------------------------------
(* C12: add_signals(batch) makes the accumulated sequence the previous
   sequence followed by the batch in the batch's order; nothing is
   deduplicated, so the length of the accumulated sequence is the number of
   signals added since the last clear, also when a signal is added twice. *)
C12_AppendsBatch ==
  /\ [](Len(signals) = added)
  /\ [][last'.op = "add_signals" =>
          /\ Len(signals') = Len(signals) + Len(last'.arg)
          /\ SubSeq(signals', 1, Len(signals)) = signals
          /\ SubSeq(signals', Len(signals) + 1, Len(signals')) = last'.arg]_vars

\* a batch of two different signals, the first of which was already held
C12_Witness ==
  /\ last.op = "add_signals"
  /\ Len(last.arg) = 2
  /\ last.arg[1] # last.arg[2]
  /\ Len(signals) = 3
  /\ signals[1] = last.arg[1]

----------------------------------------------------------------------------
(* C13: clear leaves the accumulated signals and the stored correlations
   empty, a new engine has both empty, and correlate_all directly after
   clear returns the empty sequence. *)
C13_ClearEmpties ==
  /\ [](last.op \in {"init", "clear"} => signals = <<>> /\ correlations = <<>>)
  /\ [][last.op = "clear" /\ last'.op = "correlate_all" =>
          ~last'.raised /\ last'.ret = <<>> /\ correlations' = <<>>]_vars

\* clear was called on an engine that held stored results
C13_Witness ==
  /\ last.op = "clear"
  /\ last.found > 0
  /\ signals = <<>>
  /\ correlations = <<>>

----------------------------------------------------------------------------
(* C14: correlate_all returns the empty sequence without raising, and stores
   nothing, when no signal is accumulated and when all accumulated signals
   belong to one layer, whatever their number and identifiers. *)
C14_NothingToCorrelate ==
  (AfterCorrelate /\ Cardinality(LayersOf(signals)) <= 1) =>
    ~last.raised /\ last.ret = <<>> /\ correlations = <<>>

\* three DNS signals, among them a resolver and an AS identifier
C14_Witness ==
  /\ AfterCorrelate
  /\ Len(signals) = 3
  /\ LayersOf(signals) = {"DNS"}
  /\ {"public_resolver", "AS_path"} \subseteq {signals[i].signal_id : i \in 1..3}
  /\ last.ret = <<>>

----------------------------------------------------------------------------
(* C15: score(group) = min(1, (1 - (1 - avg)^n) * (1 + 0.3 * (L - 1))) with
   n the group size, avg the mean of the base strengths (SOLO 0.8, PAIR 0.4,
   MULTI 0.2, WEAK 0.1) and L the number of distinct layers; the empty group
   scores 0, one SOLO signal 0.8, two SOLO signals of one layer 0.96, two
   SOLO signals of two layers 1. *)
StrengthTenths == [SOLO |-> 8, PAIR |-> 4, MULTI |-> 2, WEAK |-> 1]

\* the formula on the common denominator 10 * (10n)^n
FormulaScore(group) ==
  LET n == Len(group)
      sum == SumSeq([i \in 1..n |-> StrengthTenths[group[i].correlation_potential]])
      den == Pow(10 * n, n)
      num == (den - Pow(10 * n - sum, n)) * (10 + 3 * (Cardinality(LayersOf(group)) - 1))
  IN IF n = 0 THEN <<0, 1>>
     ELSE IF num >= 10 * den THEN <<1, 1>>
     ELSE Frac(num, 10 * den)

AllSolo(group) == \A i \in 1..Len(group) : group[i].correlation_potential = "SOLO"

----------------------------------------------------------------------------
(* C17: confidence(score) is CRITICAL from 0.9 up, HIGH from 0.7 up to below
   0.9, MEDIUM from 0.4 up to below 0.7 and LOW below 0.4; each boundary
   value belongs to the higher band. *)
C17_ConfidenceBands ==
  last.op = "assess_attribution_confidence" =>
    LET k == last.arg[1]
    IN /\ last.arg[2] = 100000
       /\ (last.ret = "CRITICAL" <=> k >= 90000)
       /\ (last.ret = "HIGH" <=> (k >= 70000 /\ k < 90000))
       /\ (last.ret = "MEDIUM" <=> (k >= 40000 /\ k < 70000))
       /\ (last.ret = "LOW" <=> k < 40000)

\* the boundary value 0.7 is HIGH
C17_Witness ==
  /\ last.op = "assess_attribution_confidence"
  /\ last.arg = <<70000, 100000>>
  /\ last.ret = "HIGH"

----------------------------------------------------------------------------
(* C18: risk(confidence, count) is the higher of the level of the confidence
   and the level of the count (4 or more: CRITICAL, 3: HIGH), which is the
   precedence CRITICAL, HIGH, MEDIUM, LOW of the claim; risk(LOW, 5) is
   CRITICAL and risk(LOW, 3) is HIGH. *)
RiskNames == <<"LOW - INSUFFICIENT CORRELATION", "MEDIUM - CORRELATION POSSIBLE",
               "HIGH - ATTRIBUTION LIKELY", "CRITICAL - OPSEC COMPROMISED">>

ConfidenceLevel == [LOW |-> 1, MEDIUM |-> 2, HIGH |-> 3, CRITICAL |-> 4]

CountLevel(count) == IF count >= 4 THEN 4 ELSE IF count >= 3 THEN 3 ELSE 1

C18_RiskPrecedence ==
  last.op = "assess_risk_level" =>
    LET c == ConfidenceLevel[last.arg[1]]
        n == CountLevel(last.arg[2])
    IN /\ last.ret = RiskNames[IF c >= n THEN c ELSE n]
       /\ (last.arg = <<"LOW", 5>> => last.ret = "CRITICAL - OPSEC COMPROMISED")
       /\ (last.arg = <<"LOW", 3>> => last.ret = "HIGH - ATTRIBUTION LIKELY")

\* the count overrides a low confidence
C18_Witness ==
  /\ last.op = "assess_risk_level"
  /\ last.arg = <<"LOW", 3>>
  /\ last.ret = "HIGH - ATTRIBUTION LIKELY"

----------------------------------------------------------------------------
(* C16: the correlation_score of every stored result, and the score of every
   group of accumulated signals, lies in [0, 1]. *)
InUnitInterval(score) == score[2] > 0 /\ score[1] >= 0 /\ score[1] <= score[2]

\* the accumulated signals at the positions in idx, in insertion order
GroupAt(idx) ==
  LET Picked(i) == i \in idx
      positions == SelectSeq([i \in 1..Len(signals) |-> i], Picked)
  IN [k \in 1..Len(positions) |-> signals[positions[k]]]

C16_ScoreInUnitInterval ==
  /\ \A k \in 1..Len(correlations) : InUnitInterval(correlations[k].correlation_score)
  /\ \A idx \in SUBSET (1..Len(signals)) :
       InUnitInterval(calculate_correlation_score(GroupAt(idx)))

\* a stored result whose score was clamped to 1 and one that stayed below 1
C16_Witness ==
  /\ AfterCorrelate
  /\ \E k \in 1..Len(correlations) :
       LET raw == score_without_clamp(correlations[k].signals)
       IN raw[1] > raw[2] /\ correlations[k].correlation_score = <<1, 1>>
  /\ \E k \in 1..Len(correlations) :
       correlations[k].correlation_score[1] < correlations[k].correlation_score[2]

----------------------------------------------------------------------------
(* C19: every stored result is consistent: its score is the score of its
   signals, its confidence the confidence of its score, and its risk level
   the risk of its confidence and the number of its signals. *)
C19_ResultsConsistent ==
  \A k \in 1..Len(correlations) :
    LET c == correlations[k]
    IN /\ c.correlation_score = calculate_correlation_score(c.signals)
       /\ c.attribution_confidence = assess_attribution_confidence(c.correlation_score)
       /\ c.risk_level = assess_risk_level(c.attribution_confidence, Len(c.signals))

\* a TEMPORAL and a DNS_NETWORK result of three signals whose risk comes
\* from the count
C19_Witness ==
  /\ AfterCorrelate
  /\ {correlations[k].correlation_type : k \in 1..Len(correlations)}
       = {"TEMPORAL", "DNS_NETWORK_CORRELATION"}
  /\ \E k \in 1..Len(correlations) :
       /\ Len(correlations[k].signals) = 3
       /\ correlations[k].attribution_confidence = "LOW"
       /\ correlations[k].risk_level = "HIGH - ATTRIBUTION LIKELY"

----------------------------------------------------------------------------
(* C20: in every reachable engine state get_mitigation_recommendations
   returns no two entries with the same (priority, issue) pair, and its
   entries are in the order in which the high-risk stored results first
   produced them. *)
\* position of the first high-risk stored result that yields the key
FirstSeenAt(key) ==
  LET high == get_high_risk_correlations(correlations)
      Yields(k) == \E i \in 1..Len(recommendation_for(high[k])) :
                     RecKey(recommendation_for(high[k])[i]) = key
  IN IF \E k \in 1..Len(high) : Yields(k)
     THEN CHOOSE k \in 1..Len(high) : Yields(k) /\ \A j \in 1..(k - 1) : ~Yields(j)
     ELSE 0

C20_UniqueRecommendations ==
  last.op = "get_mitigation_recommendations" =>
    /\ \A i, j \in 1..Len(last.ret) :
         RecKey(last.ret[i]) = RecKey(last.ret[j]) => i = j
    /\ \A i \in 1..Len(last.ret) : FirstSeenAt(RecKey(last.ret[i])) > 0
    /\ \A i, j \in 1..Len(last.ret) :
         i < j => FirstSeenAt(RecKey(last.ret[i])) < FirstSeenAt(RecKey(last.ret[j]))

\* both entries returned after correlate_all ran twice in a row without clear
C20_Witness ==
  /\ last.op = "get_mitigation_recommendations"
  /\ last.repeat
  /\ Len(last.ret) = 2
  /\ Len(get_high_risk_correlations(correlations)) > 2

----------------------------------------------------------------------------
(* C21: every recommendation stems from a stored high-risk result of type
   DNS_NETWORK_CORRELATION (priority CRITICAL), TIMEZONE_TIMING_CORRELATION
   (priority HIGH) or MULTI_LAYER_CONVERGENCE (priority CRITICAL); when every
   stored result is TEMPORAL the list of recommendations is empty. *)
RecommendedPriority ==
  [DNS_NETWORK_CORRELATION |-> "CRITICAL",
   TIMEZONE_TIMING_CORRELATION |-> "HIGH",
   MULTI_LAYER_CONVERGENCE |-> "CRITICAL"]

IsHighRisk(c) == c.attribution_confidence = "HIGH" \/ c.attribution_confidence = "CRITICAL"

\* the stored result c accounts for the entry rec
AccountsFor(c, rec) ==
  /\ IsHighRisk(c)
  /\ c.correlation_type \in DOMAIN RecommendedPriority
  /\ rec.priority = RecommendedPriority[c.correlation_type]
  /\ rec.layers = IF c.correlation_type = "DNS_NETWORK_CORRELATION" THEN {"DNS", "NETWORK"}
                  ELSE IF c.correlation_type = "TIMEZONE_TIMING_CORRELATION"
                  THEN {"USERLAND", "METADATA"}
                  ELSE LayersOf(c.signals)

C21_RecommendedTypesOnly ==
  last.op = "get_mitigation_recommendations" =>
    /\ \A i \in 1..Len(last.ret) :
         \E k \in 1..Len(correlations) : AccountsFor(correlations[k], last.ret[i])
    /\ Len(last.ret) <= Cardinality({k \in 1..Len(correlations) :
                                       /\ IsHighRisk(correlations[k])
                                       /\ correlations[k].correlation_type # "TEMPORAL"})
    /\ ((\A k \in 1..Len(correlations) : correlations[k].correlation_type = "TEMPORAL")
          => last.ret = <<>>)

\* a stored TEMPORAL result of confidence CRITICAL and no recommendation
C21_Witness ==
  /\ last.op = "get_mitigation_recommendations"
  /\ correlations # <<>>
  /\ \A k \in 1..Len(correlations) :
       /\ correlations[k].correlation_type = "TEMPORAL"
       /\ correlations[k].attribution_confidence = "CRITICAL"
  /\ last.ret = <<>>

----------------------------------------------------------------------------
(* C22: get_critical_correlations returns the stored results of confidence
   CRITICAL and get_high_risk_correlations those of confidence HIGH or
   CRITICAL, in stored order; the critical list is a subsequence of the
   high-risk list and that one a subsequence of the stored results. *)
\* the elements of seq at the positions in idx, in order
SubSeqAt(seq, idx) ==
  LET Picked(i) == i \in idx
      positions == SelectSeq([i \in 1..Len(seq) |-> i], Picked)
  IN [k \in 1..Len(positions) |-> seq[positions[k]]]

IsSubsequence(a, b) == \E idx \in SUBSET (1..Len(b)) : a = SubSeqAt(b, idx)

WithConfidence(levels) ==
  SubSeqAt(correlations,
           {k \in 1..Len(correlations) : correlations[k].attribution_confidence \in levels})

C22_QueriesFilterByConfidence ==
  /\ (last.op = "get_critical_correlations" => last.ret = WithConfidence({"CRITICAL"}))
  /\ (last.op = "get_high_risk_correlations" => last.ret = WithConfidence({"HIGH", "CRITICAL"}))
  /\ (last.op \in {"get_critical_correlations", "get_high_risk_correlations"} =>
        /\ IsSubsequence(WithConfidence({"CRITICAL"}), WithConfidence({"HIGH", "CRITICAL"}))
        /\ IsSubsequence(WithConfidence({"HIGH", "CRITICAL"}), correlations))

\* the critical query leaves out a stored result of confidence HIGH
C22_Witness ==
  /\ last.op = "get_critical_correlations"
  /\ \E k \in 1..Len(correlations) : correlations[k].attribution_confidence = "HIGH"
  /\ \E k \in 1..Len(correlations) : correlations[k].attribution_confidence = "CRITICAL"
  /\ Len(last.ret) < Len(correlations)
  /\ last.ret # <<>>

----------------------------------------------------------------------------
(* C23: the highest_risk_correlation of a report is the stored result of
   maximal correlation_score, the earliest of them in stored order, and it is
   null exactly when no result is stored. *)
ScoreGeq(a, b) == ~ScoreLess(a.correlation_score, b.correlation_score)

IsMaximal(k) == \A j \in 1..Len(correlations) : ScoreGeq(correlations[k], correlations[j])

C23_HighestRiskIsFirstMaximum ==
  last.op = "generate_report" =>
    LET highest == last.ret.highest_risk_correlation
    IN /\ (highest = <<>> <=> correlations = <<>>)
       /\ \A k \in 1..Len(correlations) :
            (IsMaximal(k) /\ \A j \in 1..(k - 1) : ~IsMaximal(j))
              => highest = <<CorrelationResult_to_dict(correlations[k])>>

\* two different stored results share the maximum, below the clamp
C23_Witness ==
  /\ last.op = "generate_report"
  /\ \E j, k \in 1..Len(correlations) :
       /\ j < k
       /\ IsMaximal(j)
       /\ IsMaximal(k)
       /\ correlations[j] # correlations[k]
       /\ correlations[j].correlation_score # <<1, 1>>

----------------------------------------------------------------------------
(* C24: in every report total_signals is the number of accumulated signals
   and total_correlations the number of stored results; the per-layer counts
   sum to total_signals, the per-confidence counts sum to total_correlations,
   and there are as many critical_correlations as the CRITICAL count. *)
RECURSIVE SumOver(_, _)
SumOver(f, keys) ==
  IF keys = {} THEN 0
  ELSE LET k == CHOOSE x \in keys : TRUE IN f[k] + SumOver(f, keys \ {k})

CountOf(f, k) == IF k \in DOMAIN f THEN f[k] ELSE 0

C24_ReportCounts ==
  last.op = "generate_report" =>
    LET summary == last.ret.summary
    IN /\ summary.total_signals = Len(signals)
       /\ summary.total_correlations = Len(correlations)
       /\ SumOver(summary.signals_by_layer, DOMAIN summary.signals_by_layer)
            = summary.total_signals
       /\ SumOver(summary.correlations_by_confidence,
                  DOMAIN summary.correlations_by_confidence)
            = summary.total_correlations
       /\ Len(last.ret.critical_correlations)
            = CountOf(summary.correlations_by_confidence, "CRITICAL")
       /\ Len(last.ret.all_signals) = Len(signals)
       /\ Len(last.ret.all_correlations) = Len(correlations)

\* a report over three signals of two layers and two stored results of which
\* one is critical
C24_Witness ==
  /\ last.op = "generate_report"
  /\ Len(signals) = 3
  /\ Cardinality(DOMAIN last.ret.summary.signals_by_layer) = 2
  /\ Len(correlations) = 2
  /\ Len(last.ret.critical_correlations) = 1

----------------------------------------------------------------------------
(* C25: the accumulated signals change only in add_signals and clear;
   correlate_all, the two queries, generate_report and
   get_mitigation_recommendations leave them as they are, and the queries,
   the report and the recommendations also leave the stored results as they
   are. *)
ReadOperations ==
  {"get_critical_correlations", "get_high_risk_correlations", "generate_report",
   "get_mitigation_recommendations"}

C25_Frame ==
  [][/\ (last'.op \in ReadOperations \cup {"correlate_all"} => signals' = signals)
     /\ (last'.op \in ReadOperations => correlations' = correlations)
     /\ (signals' # signals => last'.op \in {"add_signals", "clear"})]_vars

\* a report taken while signals and results are held
C25_Witness ==
  /\ last.op = "generate_report"
  /\ signals # <<>>
  /\ correlations # <<>>
  /\ last.ret.summary.total_correlations = Len(correlations)

----------------------------------------------------------------------------
(* C26: OpsecAnalyzer.add_signal raises ValueError for a signal whose layer
   differs from the analyzer's layer and leaves the analyzer's signals
   unchanged; it appends a signal of the analyzer's layer; after any sequence
   of add_signal and clear_signals calls every signal held carries the
   analyzer's layer. *)
HoldsOwnLayerOnly ==
  \A i \in 1..Len(analyzer.signals) : analyzer.signals[i].layer = analyzer.layer

C26_AnalyzerLayerGuard ==
  /\ []HoldsOwnLayerOnly
  /\ [][last'.op = "add_signal" =>
          IF last'.arg.layer # analyzer.layer
          THEN last'.raised /\ analyzer' = analyzer
          ELSE /\ ~last'.raised
               /\ analyzer'.layer = analyzer.layer
               /\ analyzer'.signals = analyzer.signals \o <<last'.arg>>]_vars

\* a signal of another layer rejected by an analyzer that holds two signals
C26_Witness ==
  /\ last.op = "add_signal"
  /\ last.raised
  /\ last.arg.layer # analyzer.layer
  /\ Len(analyzer.signals) = 2

----------------------------------------------------------------------------
(* C27: every stored result groups at least 2 signals of at least 2 distinct
   layers. *)
C27_TwoSignalsTwoLayers ==
  \A k \in 1..Len(correlations) :
    /\ Len(correlations[k].signals) >= 2
    /\ Cardinality(LayersOf(correlations[k].signals)) >= 2

\* a temporal and a cross-layer result, the latter over two of three signals
C27_Witness ==
  /\ AfterCorrelate
  /\ Len(signals) = 3
  /\ \E j, k \in 1..Len(correlations) :
       /\ correlations[j].correlation_type = "TEMPORAL"
       /\ correlations[k].correlation_type # "TEMPORAL"
       /\ Len(correlations[k].signals) = 2

----------------------------------------------------------------------------
(* C28: add_signals leaves the stored results unchanged, and the queries, the
   report and the recommendations answer from the stored results as they are,
   also when signals were added after they were computed; the report's
   total_signals counts all accumulated signals. *)
AnswerFrom(op, sigs, corrs) ==
  IF op = "get_critical_correlations"
  THEN SelectSeq(corrs, LAMBDA c : c.attribution_confidence = "CRITICAL")
  ELSE IF op = "get_high_risk_correlations" THEN SelectSeq(corrs, IsHighRisk)
  ELSE IF op = "generate_report" THEN report_of(sigs, corrs)
  ELSE get_mitigation_recommendations_of(corrs)

\* the stored results were computed from the first n accumulated signals
ComputedFromFirst(n) ==
  correlations = correlate_all_outcome(SubSeq(signals, 1, n), <<>>).correlations

C28_AddSignalsKeepsResults ==
  [][/\ (last'.op = "add_signals" => correlations' = correlations)
     /\ (last'.op \in ReadOperations =>
           /\ last'.ret = AnswerFrom(last'.op, signals, correlations)
           /\ (last'.op = "generate_report" =>
                 /\ last'.ret.summary.total_signals = Len(signals)
                 /\ last'.ret.summary.total_correlations = Len(correlations)))]_vars

\* a report whose results were computed before the last signal was added
C28_Witness ==
  /\ last.op = "generate_report"
  /\ correlations # <<>>
  /\ ~ComputedFromFirst(Len(signals))
  /\ \E n \in 2..(Len(signals) - 1) : ComputedFromFirst(n)
  /\ last.ret.summary.total_signals = Len(signals)
  /\ last.ret.all_correlations
       = [k \in 1..Len(correlations) |-> CorrelationResult_to_dict(correlations[k])]

----------------------------------------------------------------------------
(* C29: when correlate_all raises, the stored results are the outputs of the
   temporal pass followed by those of the cross-layer pass over the current
   signals, not the results of the previous run, and the accumulated signals
   are unchanged. *)
C29_PartialResultsOnError ==
  [][(last'.op = "correlate_all" /\ last'.raised) =>
       /\ signals' = signals
       /\ correlations' = correlate_temporal(signals, time_window_seconds)
                            \o correlate_cross_layer(signals)
       /\ last'.ret = <<>>]_vars

\* a failing run that replaced the results of an earlier run by other ones
C29_Witness ==
  /\ AfterCorrelate
  /\ last.raised
  /\ last.found > 0
  /\ Len(correlations) > last.found
  /\ \E k \in 1..Len(correlations) : correlations[k].correlation_type = "TEMPORAL"
  /\ \E k \in 1..Len(correlations) : correlations[k].correlation_type # "TEMPORAL"

----------------------------------------------------------------------------
(* C30: the queries and the recommendations depend on the confidence, not on
   the risk level: a stored result of confidence LOW or MEDIUM is in neither
   query result and yields no recommendation, also when the count of its
   signals makes its risk level HIGH or CRITICAL. *)
LowConfidence(c) == c.attribution_confidence \in {"LOW", "MEDIUM"}

C30_ConfidenceNotRisk ==
  /\ (last.op \in {"get_critical_correlations", "get_high_risk_correlations"} =>
        \A k \in 1..Len(correlations) :
          LowConfidence(correlations[k]) =>
            \A i \in 1..Len(last.ret) : last.ret[i] # correlations[k])
  /\ (last.op = "get_mitigation_recommendations" =>
        /\ Len(last.ret) <= Cardinality({k \in 1..Len(correlations) :
                                           ~LowConfidence(correlations[k])})
        /\ ((\A k \in 1..Len(correlations) : LowConfidence(correlations[k]))
              => last.ret = <<>>))

\* no recommendation for a DNS_NETWORK_CORRELATION result of confidence MEDIUM
\* whose four signals make its risk level CRITICAL
C30_Witness ==
  /\ last.op = "get_mitigation_recommendations"
  /\ last.ret = <<>>
  /\ \E k \in 1..Len(correlations) :
       /\ correlations[k].correlation_type = "DNS_NETWORK_CORRELATION"
       /\ correlations[k].attribution_confidence = "MEDIUM"
       /\ Len(correlations[k].signals) = 4
       /\ correlations[k].risk_level = "CRITICAL - OPSEC COMPROMISED"

====
